---- MODULE Spec2Model ----
(***************************************************************************)
(* A model of src/Arbitrage.py (currency-arbitrage detection) and of the   *)
(* ranking part of src/Soccer.py.                                          *)
(*                                                                         *)
(* Python lists and tuples that the code indexes from 0 are functions on   *)
(* 0..len-1 (matrices, rows, info rows) or sequences read through Item,    *)
(* which takes Python's 0-based and negative indices.  Rates are exact     *)
(* rationals <<numerator, denominator>> with a positive denominator; the   *)
(* code's float64 products are modelled by exact products.                 *)
(***************************************************************************)
EXTENDS Integers, Sequences, FiniteSets, TLC

VARIABLES
    pc,            \* position of the running program
    tablesDone,    \* Arbitrage.main: number of tables already processed
    N,             \* dimension of the current table
    input_matrix,  \* the rows read for the current table
    m,             \* the completed matrix (transform_input's result)
    err,           \* "none", or the exception transform_input raised
    memo,          \* detect_arbitrage's default argument: one dict per process
    memo0,         \* history: memo as it was when the current call started
    arb_chains,    \* detect_arbitrage's result list
    i,             \* detect_arbitrage / generate_transaction: current length
    transactions,  \* the list of transactions being built or walked
    k,             \* 1-based position of the next element in the walked list
    combs,         \* generate_transaction: the list of combinations
    fmemo,         \* reference run: the memo of the same call started empty
    farb,          \* reference run: its result list
    scores,        \* Soccer: Scoreboard.scores
    info,          \* Soccer: Scoreboard.info
    ranking,       \* Soccer: the list Scoreboard.rank returned
    nresults       \* Soccer: number of results written so far

vars == <<pc, tablesDone, N, input_matrix, m, err, memo, memo0, arb_chains, i,
          transactions, k, combs, fmemo, farb, scores, info, ranking, nresults>>

arbVars == <<tablesDone, N, input_matrix, m, err, memo, memo0, arb_chains, i,
             transactions, k, combs, fmemo, farb>>

socVars == <<scores, info, ranking, nresults>>

\* ------------------------------------------------------------------ bounds

\* Largest table dimension.
MaxN == 3

\* Number of tables main processes in one run.
MaxTables == 2

\* Largest dimension handed to generate_transaction on its own.
MaxEnumN == 6

\* ------------------------------------------------------- Python primitives

\* t[x] for a Python sequence t and a 0-based or negative index x.
Item(t, x) == IF x >= 0 THEN t[x + 1] ELSE t[Len(t) + x + 1]

\* t[:-1]
AllButLast(t) == SubSeq(t, 1, Len(t) - 1)

\* range(a, b) as a sequence.
Range(a, b) == [x \in 1..(IF b > a THEN b - a ELSE 0) |-> a + x - 1]

Elems(s) == {s[x] : x \in 1..Len(s)}

\* The empty dict.
EmptyDict == <<>>

\* ------------------------------------------------------------------ rates

One == <<1, 1>>

Mul(a, b) == <<a[1] * b[1], a[2] * b[2]>>

\* Exceeds with the comparison >= in place of >.
ExceedsOrEqual(v) == (v[1] - v[2]) * 100 >= v[2]

\* cycle_result > 1.01, for a value with a positive denominator
\* (num/den > 101/100 written as (num - den) * 100 > den).
Exceeds(v) == (v[1] - v[2]) * 100 > v[2]

\* Rate values offered to a table of dimension n when a single table is
\* examined: values on both sides of the 1.01 boundary for two currencies,
\* fewer values as the table grows.
RatesFor(n) ==
    IF n = 2 THEN {<<1, 2>>, <<1, 1>>, <<10099, 10000>>, <<101, 100>>,
                   <<102, 100>>, <<2, 1>>}
    ELSE IF n = 3 THEN {<<1, 2>>, <<1, 1>>, <<2, 1>>}
    ELSE {<<1, 2>>, <<2, 1>>}

\* Rate values offered to each table of a run over several tables.
SeqRates(n) == IF n <= 3 THEN {<<1, 2>>, <<2, 1>>} ELSE {<<2, 1>>}

\* --------------------------------------------------------- transform_input

\* Row i is read at the indices j (j < i) and j - 1 (i < j < N).
IndicesRead(n, r) == {j \in 0..(n - 1) : j < r} \cup {j - 1 : j \in (r + 1)..(n - 1)}

\* A list index out of range: the code raises IndexError.
Raises(im, n) ==
    \E r \in 0..(n - 1) :
        \/ r \notin DOMAIN im
        \/ \E x \in IndicesRead(n, r) : x \notin DOMAIN im[r]

\* transform_input reading the transposed input cell.
transform_inputTransposed(im, n) ==
    [r \in 0..(n - 1) |->
        [j \in 0..(n - 1) |->
            IF j < r THEN im[j][r - 1]
            ELSE IF j > r THEN im[j][r]
            ELSE One]]

\* Lines 25-31.
transform_input(im, n) ==
    [r \in 0..(n - 1) |->
        [j \in 0..(n - 1) |->
            IF j < r THEN im[r][j]
            ELSE IF j > r THEN im[r][j - 1]
            ELSE One]]

\* ---------------------------------------------------- generate_transaction

RECURSIVE combinations(_, _)
\* itertools.combinations(pool, r): r-subsequences of pool, in lexicographic
\* order of positions.
combinations(pool, r) ==
    IF r = 0 THEN << <<>> >>
    ELSE IF Len(pool) < r THEN <<>>
    ELSE LET with == combinations(Tail(pool), r - 1)
             without == combinations(Tail(pool), r)
         IN  [x \in 1..Len(with) |-> <<Head(pool)>> \o with[x]] \o without

Without(s, x) == SubSeq(s, 1, x - 1) \o SubSeq(s, x + 1, Len(s))

RECURSIVE permutations(_)
RECURSIVE PermFrom(_, _)
\* itertools.permutations(s): all orderings, in lexicographic order of
\* positions.
permutations(s) ==
    IF Len(s) = 0 THEN << <<>> >> ELSE PermFrom(s, 1)

PermFrom(s, x) ==
    IF x > Len(s) THEN <<>>
    ELSE LET rest == permutations(Without(s, x))
         IN  [y \in 1..Len(rest) |-> <<s[x]>> \o rest[y]] \o PermFrom(s, x + 1)

\* ExtendTransactions that adds the combination without permuting it.
ExtendWithComb(ts, comb) == Append(ts, comb)

\* One pass of the loop over combs: transactions += perm.
ExtendTransactions(ts, comb) == ts \o permutations(comb)

RECURSIVE ExtendAll(_, _, _)
ExtendAll(ts, cs, x) ==
    IF x > Len(cs) THEN ts
    ELSE ExtendAll(ExtendTransactions(ts, cs[x]), cs, x + 1)

generate_transaction(n, len) ==
    ExtendAll(<<>>, combinations(Range(0, n), len), 1)

\* -------------------------------------------------------- detect_arbitrage

\* Store that keeps an entry already present (memo.setdefault).
StoreIfAbsent(mem, t, v, run) ==
    [key \in (DOMAIN mem) \cup {t} |->
        IF key \in DOMAIN mem THEN mem[key] ELSE [v |-> v, run |-> run]]

\* memo[t] = cycle_result.  An entry holds the value and, as history, the
\* number of the call that wrote it.
Store(mem, t, v, run) ==
    [key \in (DOMAIN mem) \cup {t} |->
        IF key = t THEN [v |-> v, run |-> run] ELSE mem[key]]

\* OpenValue whose memo branch reads the last rate transposed.
OpenValueTransposed(mat, t, mem) ==
    IF AllButLast(t) \in DOMAIN mem
    THEN Mul(Mul(One, mem[AllButLast(t)].v), mat[Item(t, -1)][Item(t, -2)])
    ELSE Mul(One, mat[Item(t, 0)][Item(t, 1)])

\* Lines 65-72: the value of the open path t.
OpenValue(mat, t, mem) ==
    IF AllButLast(t) \in DOMAIN mem
    THEN Mul(Mul(One, mem[AllButLast(t)].v), mat[Item(t, -2)][Item(t, -1)])
    ELSE Mul(One, mat[Item(t, 0)][Item(t, 1)])

\* CycleValue without the closing rate.
CycleValueOpen(mat, t, open) == open

\* Line 74: finish the transaction.
CycleValue(mat, t, open) == Mul(open, mat[Item(t, -1)][Item(t, 0)])

\* Lines 76-77: close the loop and shift to 1-based numbers.
CycleT(t) == [x \in 1..(Len(t) + 1) |-> (IF x <= Len(t) THEN t[x] ELSE t[1]) + 1]

\* Lines 75-78.
Record(chains, mat, t, open) ==
    IF Exceeds(CycleValue(mat, t, open)) THEN Append(chains, CycleT(t)) ELSE chains

\* ------------------------------------------------------------------ tables

\* The tables main can slice out of a well-formed file: n rows of n - 1 rates.
\* Up to three currencies every such table is offered; from four on, the
\* tables that hold one rate per row.
Tables(n, rates) ==
    IF n <= 3 THEN [0..(n - 1) -> [0..(n - 2) -> rates]]
    ELSE {[r \in 0..(n - 1) |-> [j \in 0..(n - 2) |-> f[r]]] : f \in [0..(n - 1) -> rates]}

\* Lines 97-111 up to the first pass of detect_arbitrage's loop: read one
\* table, complete it, and enter detect_arbitrage with the process's memo.
ReadTable(n, im) ==
    /\ pc = "main"
    /\ ~Raises(im, n)
    /\ N' = n
    /\ input_matrix' = im
    /\ m' = transform_input(im, n)
    /\ err' = "none"
    /\ arb_chains' = <<>>
    /\ i' = 2
    /\ transactions' = generate_transaction(n, 2)
    /\ k' = 1
    /\ memo0' = memo
    /\ fmemo' = EmptyDict
    /\ farb' = <<>>
    /\ pc' = "detect"
    /\ UNCHANGED <<tablesDone, memo, combs>>
    /\ UNCHANGED socVars

\* main's while loop over the tables of one input file.
MainReadTable ==
    /\ tablesDone < MaxTables
    /\ \E n \in 2..MaxN : \E im \in Tables(n, SeqRates(n)) : ReadTable(n, im)

\* The first table of a run.
FirstTable ==
    /\ tablesDone = 0
    /\ \E n \in 2..MaxN : \E im \in Tables(n, RatesFor(n)) : ReadTable(n, im)

\* One pass of the loop over transactions (lines 64-78), and the step of the
\* loop over lengths (lines 62-63) when the list is exhausted.
EvalTransaction ==
    /\ pc = "detect"
    /\ k <= Len(transactions)
    /\ LET t == transactions[k]
           open == OpenValue(m, t, memo)
           fopen == OpenValue(m, t, fmemo)
       IN  /\ memo' = Store(memo, t, open, tablesDone)
           /\ arb_chains' = Record(arb_chains, m, t, open)
           /\ fmemo' = Store(fmemo, t, fopen, tablesDone)
           /\ farb' = Record(farb, m, t, fopen)
    /\ IF k < Len(transactions)
       THEN /\ k' = k + 1
            /\ UNCHANGED <<i, transactions, pc>>
       ELSE IF i < N
       THEN /\ i' = i + 1
            /\ transactions' = generate_transaction(N, i + 1)
            /\ k' = 1
            /\ pc' = pc
       ELSE /\ pc' = "return"
            /\ UNCHANGED <<i, transactions, k>>
    /\ UNCHANGED <<tablesDone, N, input_matrix, m, err, memo0, combs>>
    /\ UNCHANGED socVars

Idle == <<>>

\* Line 79 and main's lines 111-127: the call returns, main writes the chains
\* out and goes back to the top of its loop.  The memo stays; the locals of the
\* finished call and of the finished pass of main are dead (each is assigned
\* again before it is read) and are left at their idle values.
Return ==
    /\ pc = "return"
    /\ pc' = "main"
    /\ tablesDone' = tablesDone + 1
    /\ N' = 0
    /\ input_matrix' = Idle
    /\ m' = Idle
    /\ arb_chains' = <<>>
    /\ i' = 0
    /\ transactions' = <<>>
    /\ k' = 0
    /\ memo0' = EmptyDict
    /\ fmemo' = EmptyDict
    /\ farb' = <<>>
    /\ UNCHANGED <<err, memo, combs>>
    /\ UNCHANGED socVars

\* The variables of Arbitrage.py other than N, input_matrix and i, before
\* anything has run.
ArbRest ==
    /\ tablesDone = 0
    /\ m = Idle
    /\ err = "none"
    /\ memo = EmptyDict
    /\ memo0 = EmptyDict
    /\ arb_chains = <<>>
    /\ transactions = <<>>
    /\ k = 0
    /\ combs = <<>>
    /\ fmemo = EmptyDict
    /\ farb = <<>>

\* Soccer.py not running.
SocIdle ==
    /\ scores = Idle
    /\ info = Idle
    /\ ranking = <<>>
    /\ nresults = 0

Init ==
    /\ pc = "main"
    /\ N = 0
    /\ input_matrix = Idle
    /\ i = 0
    /\ ArbRest
    /\ SocIdle

Next == MainReadTable \/ EvalTransaction \/ Return

\* A run of main over up to MaxTables tables.
Spec == Init /\ [][Next]_vars

NextOne == FirstTable \/ EvalTransaction \/ Return

\* One table, detect_arbitrage starting from the empty memo.
SpecOne == Init /\ [][NextOne]_vars

\* ------------------------------------------- transform_input called alone

\* Rate values offered to transform_input called alone.
RawRates == {<<1, 2>>, <<2, 1>>}

\* Rows of n - 2, n - 1 or n entries: too short, exact, too long.
RawRows(n) ==
    UNION {[0..(len - 1) -> RawRates] : len \in {n - 2, n - 1, n} \cap Nat}

RawTables(n) == [0..(n - 1) -> RawRows(n)]

InitTransform ==
    /\ pc = "transform"
    /\ N \in 2..MaxN
    /\ input_matrix \in RawTables(N)
    /\ i = 0
    /\ ArbRest
    /\ SocIdle

\* transform_input(input_matrix, N): returns the matrix, or raises IndexError
\* at the first read past the end of a row.
CallTransformInput ==
    /\ pc = "transform"
    /\ ~Raises(input_matrix, N)
    /\ m' = transform_input(input_matrix, N)
    /\ pc' = "transform_returned"
    /\ UNCHANGED <<tablesDone, N, input_matrix, err, memo, memo0, arb_chains, i,
                   transactions, k, combs, fmemo, farb>>
    /\ UNCHANGED socVars

TransformInputRaises ==
    /\ pc = "transform"
    /\ Raises(input_matrix, N)
    /\ err' = "IndexError"
    /\ pc' = "transform_raised"
    /\ UNCHANGED <<tablesDone, N, input_matrix, m, memo, memo0, arb_chains, i,
                   transactions, k, combs, fmemo, farb>>
    /\ UNCHANGED socVars

NextTransform == CallTransformInput \/ TransformInputRaises

SpecTransform == InitTransform /\ [][NextTransform]_vars

\* -------------------------------------- generate_transaction called alone

InitEnum ==
    /\ pc = "generate"
    /\ N \in 2..MaxEnumN
    /\ i \in 2..N
    /\ input_matrix = Idle
    /\ ArbRest
    /\ SocIdle

\* Lines 42-45.
GenStart ==
    /\ pc = "generate"
    /\ transactions' = <<>>
    /\ combs' = combinations(Range(0, N), i)
    /\ k' = 1
    /\ pc' = "combs"
    /\ UNCHANGED <<tablesDone, N, input_matrix, m, err, memo, memo0, arb_chains,
                   i, fmemo, farb>>
    /\ UNCHANGED socVars

\* Lines 46-49: one pass of the loop over combs.
GenComb ==
    /\ pc = "combs"
    /\ k <= Len(combs)
    /\ transactions' = ExtendTransactions(transactions, combs[k])
    /\ k' = k + 1
    /\ UNCHANGED <<pc, tablesDone, N, input_matrix, m, err, memo, memo0,
                   arb_chains, i, combs, fmemo, farb>>
    /\ UNCHANGED socVars

\* Line 50.
GenReturn ==
    /\ pc = "combs"
    /\ k > Len(combs)
    /\ pc' = "generated"
    /\ UNCHANGED arbVars
    /\ UNCHANGED socVars

NextEnum == GenStart \/ GenComb \/ GenReturn

SpecEnum == InitEnum /\ [][NextEnum]_vars

\* ------------------------------------------------------------- Soccer.py

\* Most games of one tournament.
MaxGames == 2

\* Most goals of one team in one game.
MaxGoals == 1

\* team_names: the strings "a", "ab", "b", as sequences of character codes.
TeamNames == << <<1>>, <<1, 2>>, <<2>> >>

\* Python's order on strings: s < t.
StrLess(s, t) ==
    \E p \in 1..(Len(t)) :
        /\ \A q \in 1..(p - 1) : q <= Len(s) /\ s[q] = t[q]
        /\ (p > Len(s) \/ s[p] < t[p])

\* Python's order on the tuples rank sorts: five integers and a name.
TupleLess(a, b) ==
    \E p \in 1..6 :
        /\ \A q \in 1..(p - 1) : a[q] = b[q]
        /\ IF p = 6 THEN StrLess(a[p], b[p]) ELSE a[p] < b[p]

\* list.count(x)
Count(list, x) == Cardinality({p \in 1..Len(list) : list[p] = x})

\* Scoreboard.__init__
InitSoccer ==
    /\ pc = "write"
    /\ scores = [team \in Elems(TeamNames) |-> << <<>>, 0, 0 >>]
    /\ info = Idle
    /\ ranking = <<>>
    /\ nresults = 0
    /\ N = 0
    /\ input_matrix = Idle
    /\ i = 0
    /\ ArbRest

\* The points the two players of a game get (lines 54-62).
Points(goal1, goal2) ==
    IF goal1 = goal2 THEN <<1, 1>>
    ELSE IF goal1 > goal2 THEN <<3, 0>>
    ELSE <<0, 3>>

\* write_scoreboard: one pass of the loop over results (lines 45-62).
WriteResult ==
    /\ pc = "write"
    /\ nresults < MaxGames
    /\ \E player1, player2 \in Elems(TeamNames), goal1, goal2 \in 0..MaxGoals :
          /\ player1 # player2
          /\ scores' = [scores EXCEPT
                ![player1] = << Append(@[1], Points(goal1, goal2)[1]),
                                @[2] + goal1, @[3] + goal2 >>,
                ![player2] = << Append(@[1], Points(goal1, goal2)[2]),
                                @[2] + goal2, @[3] + goal1 >>]
    /\ nresults' = nresults + 1
    /\ UNCHANGED <<pc, info, ranking>>
    /\ UNCHANGED arbVars

\* Lines 71-80: the info row of one team.
InfoRow(score) ==
    LET scored == Item(score, 1)
        against == Item(score, 2)
        wins == Count(Item(score, 0), 3)
        ties == Count(Item(score, 0), 1)
        losses == Count(Item(score, 0), 0)
        points == 3 * wins + 1 * ties
    IN  <<points, wins + ties + losses, wins, ties, losses,
          scored - against, scored, against>>

\* summarize_info, called when every result is written (lines 118-119).
SummarizeInfo ==
    /\ pc = "write"
    /\ info' = [key \in DOMAIN scores |-> InfoRow(scores[key])]
    /\ pc' = "summarized"
    /\ UNCHANGED <<scores, ranking, nresults>>
    /\ UNCHANGED arbVars

\* Line 98: the tuple sorted for team key with info row v.
SortKey(v, key) == <<Item(v, 0), Item(v, 2), Item(v, 5), Item(v, 6), 0 - Item(v, 1), key>>

RECURSIVE InsertReverse(_, _)
\* x put into a list in decreasing order, after the elements not less than it.
InsertReverse(x, list) ==
    IF list = <<>> THEN <<x>>
    ELSE IF TupleLess(Head(list), x) THEN <<x>> \o list
    ELSE <<Head(list)>> \o InsertReverse(x, Tail(list))

RECURSIVE SortReverse(_, _)
\* list.sort(reverse=True) on the elements of list from position p on.
SortReverse(list, p) ==
    IF p > Len(list) THEN <<>>
    ELSE InsertReverse(list[p], SortReverse(list, p + 1))

\* Scoreboard.rank (lines 98-102); info keeps the order of team_names.
RankOf(inf) ==
    LET to_sort == [p \in 1..Len(TeamNames) |-> SortKey(inf[TeamNames[p]], TeamNames[p])]
        sorted == SortReverse(to_sort, 1)
    IN  [p \in 1..Len(sorted) |-> Item(sorted[p], -1)]

Rank ==
    /\ pc = "summarized"
    /\ ranking' = RankOf(info)
    /\ pc' = "ranked"
    /\ UNCHANGED <<scores, info, nresults>>
    /\ UNCHANGED arbVars

NextSoccer == WriteResult \/ SummarizeInfo \/ Rank

\* One tournament: results written, summarised, ranked.
SpecSoccer == InitSoccer /\ [][NextSoccer]_vars

\* ================================================================ claims
\* Definitions used to state the claims (not part of the program).

RECURSIVE GCD(_, _)
GCD(a, b) == IF b = 0 THEN a ELSE GCD(b, a % b)

\* The rational v in lowest terms.
Reduced(v) == LET g == GCD(v[1], v[2]) IN <<v[1] \div g, v[2] \div g>>

\* v = n/d as rationals.
IsRate(v, n, d) == Reduced(v) = Reduced(<<n, d>>)

\* v > 1.01, stated independently of the program's comparison.
Above101(v) == 100 * (v[1] - v[2]) > v[2]

RECURSIVE PathProduct(_, _)
\* The product of the rates along the open path p, computed from scratch on
\* the matrix: mat[p0][p1] * mat[p1][p2] * ...
PathProduct(mat, p) ==
    IF Len(p) < 2 THEN One
    ELSE Mul(PathProduct(mat, AllButLast(p)), mat[Item(p, -2)][Item(p, -1)])

\* The product around the closed cycle of t.
CycleProduct(mat, t) == PathProduct(mat, Append(t, t[1]))

\* Every ordered sequence of len pairwise distinct indices of [0, n).
SimplePaths(n, len) ==
    {t \in [1..len -> 0..(n - 1)] : \A x, y \in 1..len : x # y => t[x] # t[y]}

AllSimplePaths(n) == UNION {SimplePaths(n, len) : len \in 2..n}

\* The chain of a transaction, as the claims write it.
ChainOf(t) == [x \in 1..(Len(t) + 1) |-> IF x <= Len(t) THEN t[x] + 1 ELSE t[1] + 1]

\* The rotation of the open path t by s places.
Rotated(t, s) == [x \in 1..Len(t) |-> t[((x - 1 + s) % Len(t)) + 1]]

\* The chains of the cyclic rotations of the chain c.
RotationsOfChain(c) ==
    LET t == SubSeq(c, 1, Len(c) - 1)
    IN  {Append(Rotated(t, s), Rotated(t, s)[1]) : s \in 0..(Len(t) - 1)}

\* C1 (memo isolation): at every point of every call of detect_arbitrage made
\* by main with the default memo, and so when the call returns, the chain list
\* equals the list of the same call on the same matrix started with an empty
\* memo.
C1_MemoIsolation == pc \in {"detect", "return"} => arb_chains = farb

\* A second table of three currencies has returned chains, and the memo it
\* started with held a different value for a key it used.
C1_Witness ==
    /\ pc = "return"
    /\ tablesDone = 1
    /\ N = 3
    /\ arb_chains # <<>>
    /\ \E key \in DOMAIN memo0 : memo0[key].v # memo[key].v

\* C2 (every profitable chain and nothing else): when detect_arbitrage returns,
\* a simple path t of length 2..N has its chain in the list exactly when the
\* product around its cycle, computed from scratch, is above 1.01, and every
\* chain in the list is the chain of such a path.
C2_AllAndOnlyProfitable ==
    pc = "return" =>
        /\ \A t \in AllSimplePaths(N) :
              (ChainOf(t) \in Elems(arb_chains)) <=> Above101(CycleProduct(m, t))
        /\ \A c \in Elems(arb_chains) : \E t \in AllSimplePaths(N) : c = ChainOf(t)

\* Three currencies: a chain of three is reported and some path is not.
C2_Witness ==
    /\ pc = "return"
    /\ N = 3
    /\ \E c \in Elems(arb_chains) : Len(c) = 4
    /\ \E t \in AllSimplePaths(N) : ChainOf(t) \notin Elems(arb_chains)

\* The product r*s of a two-currency table.
RS == Mul(m[0][1], m[1][0])

\* C3 as stated: two currencies; a chain is reported iff r*s > 1.01; the list
\* is empty when r*s = 1.0099 and is exactly [[1,2,1]] when r*s = 1.02.
C3_AsStated ==
    (pc = "return" /\ N = 2) =>
        /\ (arb_chains # <<>>) <=> Above101(RS)
        /\ IsRate(RS, 10099, 10000) => arb_chains = <<>>
        /\ IsRate(RS, 102, 100) => arb_chains = << <<1, 2, 1>> >>

\* C3 amended: two currencies; a chain is reported iff r*s > 1.01; the list is
\* empty when r*s = 1.0099 and is exactly [[1,2,1],[2,1,2]] when r*s = 1.02.
C3_TwoCurrencyBoundary ==
    (pc = "return" /\ N = 2) =>
        /\ (arb_chains # <<>>) <=> Above101(RS)
        /\ IsRate(RS, 10099, 10000) => arb_chains = <<>>
        /\ IsRate(RS, 102, 100) => arb_chains = << <<1, 2, 1>>, <<2, 1, 2>> >>

\* A two-currency table with r*s = 1.02 has returned.
C3_Witness ==
    /\ pc = "return"
    /\ N = 2
    /\ IsRate(RS, 102, 100)
    /\ Len(arb_chains) = 2

\* C4 as stated: when a call of detect_arbitrage starts (before its first
\* transaction), the memo is empty: nothing written by an earlier table's
\* detection is still there.
C4_MemoFreshAtStart ==
    (pc = "detect" /\ i = 2 /\ k = 1) => memo = EmptyDict

\* C9 (write before read): the transaction about to be evaluated, if of length
\* 2, does not find its prefix in the memo and gets the value rate[t0][t1];
\* if longer, finds its prefix in the memo, in an entry written by the current
\* call, whose value is the product of the current matrix along the prefix.
C9_WriteBeforeRead ==
    (pc = "detect" /\ k <= Len(transactions)) =>
        LET t == transactions[k]
            p == AllButLast(t)
        IN  /\ Len(t) = 2 =>
                /\ p \notin DOMAIN memo
                /\ OpenValue(m, t, memo) = m[t[1]][t[2]]
            /\ Len(t) > 2 =>
                /\ p \in DOMAIN memo
                /\ memo[p].run = tablesDone
                /\ memo[p].v = PathProduct(m, p)

\* In a second table, a transaction of length 3 is about to read a prefix for
\* which the memo held another value when the call started.
C9_Witness ==
    /\ pc = "detect"
    /\ tablesDone = 1
    /\ k <= Len(transactions)
    /\ Len(transactions[k]) = 3
    /\ AllButLast(transactions[k]) \in DOMAIN memo0
    /\ memo0[AllButLast(transactions[k])].v # memo[AllButLast(transactions[k])].v

\* C10 (rotation closure, exact arithmetic): when detect_arbitrage returns,
\* for every chain in the list over K currencies, exactly K entries of the
\* list are chains of its cyclic rotations.
C10_RotationClosure ==
    pc = "return" =>
        \A x \in 1..Len(arb_chains) :
            Cardinality({y \in 1..Len(arb_chains) :
                            arb_chains[y] \in RotationsOfChain(arb_chains[x])})
                = Len(arb_chains[x]) - 1

\* A chain over three currencies is in the returned list.
C10_Witness ==
    /\ pc = "return"
    /\ N = 3
    /\ \E x \in 1..Len(arb_chains) : Len(arb_chains[x]) = 4

\* The rows of the table all have exactly N - 1 entries.
WellFormed == \A r \in 0..(N - 1) : DOMAIN input_matrix[r] = 0..(N - 2)

\* C5 as stated: transform_input given a row whose length is not N - 1,
\* shorter or longer, fails and produces no matrix.
C5_RejectsBadRows ==
    (pc \in {"transform_returned", "transform_raised"} /\ ~WellFormed) =>
        (pc = "transform_raised" /\ err # "none" /\ m = Idle)

RECURSIVE Factorial(_)
Factorial(n) == IF n = 0 THEN 1 ELSE n * Factorial(n - 1)

\* C(n, r)
Binomial(n, r) == Factorial(n) \div (Factorial(r) * Factorial(n - r))

\* C6 (enumeration completeness): generate_transaction(N, K) returns
\* C(N,K)*K! sequences, without duplicates, and they are exactly the ordered
\* sequences of K pairwise distinct indices of {0..N-1}; the list built pass
\* by pass is the list detect_arbitrage walks.
C6_EnumerationComplete ==
    pc = "generated" =>
        /\ Len(transactions) = Binomial(N, i) * Factorial(i)
        /\ Cardinality(Elems(transactions)) = Len(transactions)
        /\ Elems(transactions) = SimplePaths(N, i)
        /\ transactions = generate_transaction(N, i)

\* N = 4, K = 3 has returned 24 triples.
C6_Witness ==
    /\ pc = "generated"
    /\ N = 4
    /\ i = 3
    /\ Len(transactions) = 24

\* C7 (matrix completion): for N rows of N - 1 entries, the result is N x N,
\* [r][r] is 1, [r][j] is input[r][j] for j < r and input[r][j-1] for j > r,
\* and the cells read in row r are exactly the cells of input row r.
C7_MatrixCompletion ==
    (pc = "transform_returned" /\ WellFormed) =>
        /\ DOMAIN m = 0..(N - 1)
        /\ \A r \in 0..(N - 1) :
              /\ DOMAIN m[r] = 0..(N - 1)
              /\ m[r][r] = One
              /\ \A j \in 0..(r - 1) : m[r][j] = input_matrix[r][j]
              /\ \A j \in (r + 1)..(N - 1) : m[r][j] = input_matrix[r][j - 1]
              /\ IndicesRead(N, r) = DOMAIN input_matrix[r]
              /\ Cardinality(IndicesRead(N, r)) = N - 1

\* A well-formed three-currency table whose middle row holds two different
\* rates has been completed.
C7_Witness ==
    /\ pc = "transform_returned"
    /\ N = 3
    /\ WellFormed
    /\ input_matrix[1][0] # input_matrix[1][1]

\* Team a comes before team b in the order the claim gives: more points, then
\* more wins, then greater goal difference, then more goals scored, then fewer
\* games played, then the lexicographically smaller name.
ClaimedBefore(a, b) ==
    LET ka == <<0 - info[a][1], 0 - info[a][3], 0 - info[a][6], 0 - info[a][7], info[a][2], a>>
        kb == <<0 - info[b][1], 0 - info[b][3], 0 - info[b][6], 0 - info[b][7], info[b][2], b>>
    IN  TupleLess(ka, kb)

\* C8 as stated: rank returns every team once, ordered by most points, most
\* wins, greatest goal difference, most goals scored, fewer games played and,
\* for teams equal on all five, lexicographic order of name.
C8_RankOrder ==
    pc = "ranked" =>
        /\ Elems(ranking) = Elems(TeamNames)
        /\ Len(ranking) = Len(TeamNames)
        /\ \A p \in 1..(Len(ranking) - 1) : ClaimedBefore(ranking[p], ranking[p + 1])

====
